---- MODULE Spec2Model ----
(***************************************************************************)
(* Model of web_to_JP_markdown: the fetch -> extract -> convert ->         *)
(* translate pipeline (main.py), the Streamlit front end and its helpers   *)
(* (app.py), and the tool server (mcp_server.py).                          *)
(*                                                                         *)
(* Parsed HTML is a preorder sequence of element nodes; each node carries  *)
(* its tag name, its role attribute, its class and its depth in the tree.  *)
(* Strings that the code takes apart (URLs, file names) are sequences of   *)
(* one-character strings.                                                  *)
(***************************************************************************)
EXTENDS Integers, Sequences, FiniteSets, TLC

VARIABLES
    pc,                 \* position of the running call ("idle" between calls)
    entry,              \* the entry point the running call came in through
    api_key,            \* the api_key argument of the constructor (None if omitted)
    env_key,            \* os.getenv("GEMINI_API_KEY") (None if unset)
    url,                \* the URL argument
    text,               \* the Markdown text argument
    client,             \* self.client: the key the translator was built with
    html,               \* html_content: the parsed document handed to extraction
    main_content,       \* main_content: the extracted fragment
    markdown_content,   \* markdown_content: the converted fragment
    translated,         \* translated_content of the running call
    net,                \* what the web answered to the fetch of this call
    svc,                \* what the generation service answered in this call
    fs,                 \* what the file system answered in this call
    calls,              \* the stages invoked by this call, in order
    result,             \* how the last call ended: value returned or error raised
    out_file,           \* the content of the CLI's output path
    exit_code,          \* the exit status of the last CLI process
    session,            \* st.session_state
    filename            \* the file name get_filename_from_url returned

inputs  == <<entry, api_key, env_key, url, text>>
locals  == <<client, html, main_content, markdown_content, translated>>
world   == <<net, svc, fs>>
ending  == <<result, out_file, exit_code, session>>
vars == <<pc, inputs, locals, world, calls, ending, filename>>

None == "None"

(***************************************************************************)
(* HTML documents                                                          *)
(***************************************************************************)
MaxNodes == 3

Elem(n, r, c) == [name |-> n, role |-> r, cls |-> c, text |-> ""]

\* The element kinds documents are built from: the six boilerplate tags,
\* the two semantic containers, body, a neutral div, one element for each
\* attribute/class selector, and a boilerplate tag that carries a selected class.
ElemKinds ==
    { Elem(n, "", "") : n \in {"script", "style", "nav", "header", "footer", "aside",
                                "article", "main", "body", "div"} }
    \cup { Elem("div", "main", "") }
    \cup { Elem("div", "", c) : c \in {"content", "post-content", "entry-content",
                                        "article-content"} }
    \cup { Elem("nav", "", "content") }

\* Depth sequences of preorder traversals of forests with n nodes.
DepthSeqs(n) ==
    { s \in [1..n -> 0..(n - 1)] :
        /\ n > 0 => s[1] = 0
        /\ \A i \in 1..(n - 1) : s[i + 1] <= s[i] + 1 }

\* The parser reads the inside of these elements as raw text, never as elements.
RawText == {"script", "style"}

\* d is a document of at most MaxNodes elements.
IsDoc(d) ==
    \E n \in 0..MaxNodes : \E s \in DepthSeqs(n) : \E k \in [1..n -> ElemKinds] :
        /\ \A i \in 1..(n - 1) : s[i + 1] > s[i] => k[i].name \notin RawText
        /\ d = [i \in 1..n |-> [name |-> k[i].name, role |-> k[i].role, cls |-> k[i].cls,
                                text |-> k[i].text, depth |-> s[i]]]

\* Last index of the subtree rooted at i.
SubtreeEnd(doc, i) ==
    CHOOSE j \in i..Len(doc) :
        /\ \A k \in (i + 1)..j : doc[k].depth > doc[i].depth
        /\ j = Len(doc) \/ doc[j + 1].depth <= doc[i].depth

\* str(element): the element and its descendants; the serialization does not
\* record how deep in the document the element sat.
Serialize(doc, i) ==
    LET sub == SubSeq(doc, i, SubtreeEnd(doc, i))
    IN  [k \in 1..Len(sub) |-> [sub[k] EXCEPT !.depth = @ - doc[i].depth]]

\* str(soup): the whole document.
SerializeAll(doc) == doc

RECURSIVE find_all(_, _, _)
\* soup([names]): document-order list of the indices from i on of the elements
\* whose tag is one of names.
find_all(doc, names, i) ==
    IF i > Len(doc) THEN <<>>
    ELSE (IF doc[i].name \in names THEN <<i>> ELSE <<>>) \o find_all(doc, names, i + 1)

RECURSIVE KeepAlive(_, _, _)
\* The document with only the elements whose index is in alive.
KeepAlive(doc, alive, i) ==
    IF i > Len(doc) THEN <<>>
    ELSE (IF i \in alive THEN <<doc[i]>> ELSE <<>>) \o KeepAlive(doc, alive, i + 1)

(***************************************************************************)
(* WebToMarkdownTranslator.extract_main_content                            *)
(***************************************************************************)
unwanted_omits_aside == {"script", "style", "nav", "header", "footer"}

\* The tags removed before selection.
unwanted == {"script", "style", "nav", "header", "footer", "aside"}

RECURSIVE DecomposeEach(_, _, _)
\* for element in soup([...]): element.decompose() -- every match, in document
\* order, is destroyed with its descendants.
DecomposeEach(doc, matches, alive) ==
    IF matches = <<>> THEN alive
    ELSE DecomposeEach(doc, Tail(matches),
                       alive \ (Head(matches)..SubtreeEnd(doc, Head(matches))))

\* The soup after the removal loop.
RemoveUnwanted(doc) ==
    KeepAlive(doc, DecomposeEach(doc, find_all(doc, unwanted, 1), 1..Len(doc)), 1)

Sel(k, v) == [kind |-> k, value |-> v]

main_selectors_main_first ==
    << Sel("tag", "main"), Sel("tag", "article"), Sel("role", "main"),
       Sel("class", "content"), Sel("class", "post-content"),
       Sel("class", "entry-content"), Sel("class", "article-content") >>

main_selectors ==
    << Sel("tag", "article"), Sel("tag", "main"), Sel("role", "main"),
       Sel("class", "content"), Sel("class", "post-content"),
       Sel("class", "entry-content"), Sel("class", "article-content") >>

Matches(e, sel) ==
    CASE sel.kind = "tag"   -> e.name = sel.value
      [] sel.kind = "role"  -> e.role = sel.value
      [] sel.kind = "class" -> e.cls = sel.value

\* soup.select_one(selector): index of the first match in document order, 0 if none.
select_one(doc, sel) ==
    LET hits == { i \in 1..Len(doc) : Matches(doc[i], sel) }
    IN  IF hits = {} THEN 0 ELSE CHOOSE i \in hits : \A j \in hits : i <= j

\* soup.find("body")
find_body(doc) == select_one(doc, Sel("tag", "body"))

RECURSIVE FirstSelected(_, _)
\* for selector in main_selectors: ... return str(main_content) on the first hit.
FirstSelected(soup, k) ==
    IF k > Len(main_selectors) THEN 0
    ELSE IF select_one(soup, main_selectors[k]) # 0
         THEN select_one(soup, main_selectors[k])
         ELSE FirstSelected(soup, k + 1)

body_fallback_skipped(soup) == SerializeAll(soup)

body_fallback(soup) ==
    IF find_body(soup) # 0 THEN Serialize(soup, find_body(soup))
    ELSE SerializeAll(soup)

extract_main_content(doc) ==
    LET soup == RemoveUnwanted(doc)
        hit  == FirstSelected(soup, 1)
    IN  IF hit # 0 THEN Serialize(soup, hit) ELSE body_fallback(soup)

(***************************************************************************)
(* app.get_filename_from_url                                               *)
(***************************************************************************)
Letters == {"a", "b", "c", "e", "g", "h", "l", "m", "o", "p", "s", "t", "w", "x"}

Digits == {"1", "8"}

\* urllib.parse.scheme_chars
SchemeChars == Letters \cup Digits \cup {"+", "-", "."}

\* s.find: the first index from i on whose character is in C, 0 if there is none.
Find(s, C, i) ==
    LET hits == { j \in i..Len(s) : s[j] \in C }
    IN  IF hits = {} THEN 0 ELSE CHOOSE j \in hits : \A k \in hits : j <= k

\* urlparse(url): the scheme is cut at the first ":" when what stands before it
\* is a scheme; after "//" the netloc runs to the first "/", "?" or "#"; the
\* fragment and the query are cut off the rest, which is the path.
urlparse(u) ==
    LET i         == Find(u, {":"}, 1)
        hasScheme == /\ i > 1
                     /\ u[1] \in Letters
                     /\ \A j \in 1..(i - 1) : u[j] \in SchemeChars
        rest1     == IF hasScheme THEN SubSeq(u, i + 1, Len(u)) ELSE u
        hasNetloc == Len(rest1) >= 2 /\ rest1[1] = "/" /\ rest1[2] = "/"
        d         == Find(rest1, {"/", "?", "#"}, 3)
        delim     == IF d = 0 THEN Len(rest1) + 1 ELSE d
        rest2     == IF hasNetloc THEN SubSeq(rest1, delim, Len(rest1)) ELSE rest1
        h         == Find(rest2, {"#"}, 1)
        rest3     == IF h = 0 THEN rest2 ELSE SubSeq(rest2, 1, h - 1)
        q         == Find(rest3, {"?"}, 1)
    IN  [netloc |-> IF hasNetloc THEN SubSeq(rest1, 3, delim - 1) ELSE <<>>,
         path   |-> IF q = 0 THEN rest3 ELSE SubSeq(rest3, 1, q - 1)]

RECURSIVE replace(_, _, _)
\* s.replace(old, new): every occurrence, left to right.
replace(s, old, new) ==
    IF s = <<>> THEN <<>>
    ELSE IF Len(old) <= Len(s) /\ SubSeq(s, 1, Len(old)) = old
         THEN new \o replace(SubSeq(s, Len(old) + 1, Len(s)), old, new)
         ELSE <<Head(s)>> \o replace(Tail(s), old, new)

RECURSIVE lstrip(_, _)
lstrip(s, c) == IF s # <<>> /\ Head(s) = c THEN lstrip(Tail(s), c) ELSE s

RECURSIVE rstrip(_, _)
rstrip(s, c) ==
    IF s # <<>> /\ s[Len(s)] = c THEN rstrip(SubSeq(s, 1, Len(s) - 1), c) ELSE s

\* s.strip(c)
strip(s, c) == rstrip(lstrip(s, c), c)

\* re.sub(r"[^\w\-_.]", "_", s)
re_sub(s) ==
    [k \in 1..Len(s) |->
        IF s[k] \in Letters \cup Digits \cup {"_", "-", "."} THEN s[k] ELSE "_"]

Www == <<"w", "w", "w", ".">>

DotMd == <<".", "m", "d">>

get_filename_from_url(u) ==
    LET parsed == urlparse(u)
        domain == replace(parsed.netloc, Www, <<>>)
        path   == replace(strip(parsed.path, "/"), <<"/">>, <<"_">>)
        name   == IF path # <<>> THEN domain \o <<"_">> \o path ELSE domain
    IN  re_sub(name) \o DotMd

\* app.main, the download column: the name comes from the recorded URL when the
\* recorded source is the URL, else it is the time-stamped generic name.
DownloadFilename(ss) ==
    IF ss.input_source = "url" /\ ss.original_url # <<>>
    THEN get_filename_from_url(ss.original_url)
    ELSE <<"translated_text_", "%Y%m%d_%H%M%S", ".md">>

(***************************************************************************)
(* WebToMarkdownTranslator.html_to_markdown                                *)
(***************************************************************************)
Line(p, t) == [prefix |-> p, text |-> t]

RECURSIVE html_to_markdown(_)
\* md(html, heading_style="ATX", bullets="-"): a heading becomes a "# " line,
\* a list item a "- " line, a paragraph a plain line; the tags of the other
\* elements leave nothing in the output.
html_to_markdown(frag) ==
    IF frag = <<>> THEN <<>>
    ELSE (CASE Head(frag).name = "h1" -> <<Line("# ", Head(frag).text)>>
            [] Head(frag).name = "li" -> <<Line("- ", Head(frag).text)>>
            [] Head(frag).name = "p"  -> <<Line("", Head(frag).text)>>
            [] OTHER                  -> <<>>)
         \o html_to_markdown(Tail(frag))

(***************************************************************************)
(* Exceptions: the chain of an exception and its __context__, the raised   *)
(* one first; a message is the list of the pieces it was formatted from.   *)
(* The Japanese message prefixes of the code are written in English.       *)
(***************************************************************************)
Layer(t, m) == [type |-> t, msg |-> m]

MsgNoKey      == "Gemini API key is not set"   \* main.py:33
TagFetch      == "Web fetch error: "           \* main.py:62
TagTranslate  == "Translation error: "         \* main.py:129
TagProcessing == "Processing error: "          \* app.py:63, app.py:74, mcp_server.py:30
MsgSetKey     == "Set the Gemini API key"      \* app.py:125, app.py:176

\* except base as e: does the clause catch an exception of class t?
IsA(t, base) ==
    \/ base = "Exception"
    \/ t = base
    \/ base = "RequestException" /\ t \in {"HTTPError", "ConnectionError"}

\* raise t(f"{tag}{e}") inside the except clause that caught e.
Reraise(t, tag, e) == <<Layer(t, <<tag>> \o Head(e).msg)>> \o e

Ok(v) == [ok |-> TRUE, value |-> v, err |-> <<>>]

Err(e) == [ok |-> FALSE, value |-> <<>>, err |-> e]

(***************************************************************************)
(* WebToMarkdownTranslator.__init__                                        *)
(***************************************************************************)
KeyArg == "key-arg"

KeyEnv == "key-env"

\* if api_key is None: api_key = os.getenv("GEMINI_API_KEY")
init_key(k, env) == IF k = None THEN env ELSE k

init_accepts_empty(k, env) ==
    IF init_key(k, env) = None
    THEN Err(<<Layer("ValueError", <<MsgNoKey>>)>>)
    ELSE Ok(init_key(k, env))

\* if not api_key: raise ValueError(...); self.client = genai.Client(api_key=api_key)
init(k, env) ==
    IF init_key(k, env) \in {None, ""}
    THEN Err(<<Layer("ValueError", <<MsgNoKey>>)>>)
    ELSE Ok(init_key(k, env))

(***************************************************************************)
(* The web and WebToMarkdownTranslator.fetch_web_content                   *)
(***************************************************************************)
U1 == <<"h", "t", "t", "p", "s", ":", "/", "/", "w", "w", "w", ".", "a", ".", "b", "/", "p">>

U2 == <<"h", "t", "t", "p", "s", ":", "/", "/", "b", ".", "a", "/", "w">>

Urls == {U1, U2}

Node(n, c, t, d) == [name |-> n, role |-> "", cls |-> c, text |-> t, depth |-> d]

\* A page with navigation in a header, an article and a script inside it.
Page1 ==
    << Node("body", "", "", 0),
       Node("header", "", "", 1), Node("li", "", "Home", 2),
       Node("article", "", "", 1), Node("h1", "", "Title", 2), Node("p", "", "Hello", 2),
       Node("script", "", "", 2) >>

\* A page with no body and no element a selector matches.
Page2 ==
    << Node("div", "", "", 0), Node("p", "", "Other", 1),
       Node("aside", "", "", 0), Node("li", "", "Ad", 1) >>

Page(u) == IF u = U1 THEN Page1 ELSE Page2

NetAnswers == {"200", "404", "refused"}

\* What requests.get / raise_for_status raise on answer a.
NetError(a) ==
    IF a = "404" THEN <<Layer("HTTPError", <<"404 Client Error">>)>>
    ELSE <<Layer("ConnectionError", <<"Connection refused">>)>>

fetch_web_content_swallows(u, a) ==
    IF a = "200" THEN Ok(Page(u)) ELSE Ok(<<>>)

\* response = requests.get(...); response.raise_for_status(); return response.text or ""
\* except requests.RequestException as e: raise requests.RequestException(f"...: {e}")
fetch_web_content(u, a) ==
    IF a = "200" THEN Ok(Page(u))
    ELSE IF IsA(Head(NetError(a)).type, "RequestException")
         THEN Err(Reraise("RequestException", TagFetch, NetError(a)))
         ELSE Err(NetError(a))

(***************************************************************************)
(* The generation service and WebToMarkdownTranslator.translate_to_japanese *)
(***************************************************************************)
SvcAnswers == {"text", "no text", "quota", "unavailable"}

\* The service's Japanese rendering of the Markdown it was sent.
Ja(content) == <<"ja", content>>

SvcError(r) ==
    IF r = "quota" THEN <<Layer("ClientError", <<"429 RESOURCE_EXHAUSTED">>)>>
    ELSE <<Layer("ServerError", <<"503 UNAVAILABLE">>)>>

translate_to_japanese_drops_cause(content, r) ==
    CASE r = "text"    -> Ok(Ja(content))
      [] r = "no text" -> Ok(<<>>)
      [] OTHER         -> Err(<<Layer("Exception", <<TagTranslate>>)>>)

\* response = self.client.models.generate_content(...); return response.text or ""
\* except Exception as e: raise Exception(f"...: {e}")
translate_to_japanese(content, r) ==
    CASE r = "text"    -> Ok(Ja(content))
      [] r = "no text" -> Ok(<<>>)
      [] OTHER         -> Err(Reraise("Exception", TagTranslate, SvcError(r)))

\* return self.translate_to_japanese(text)
translate_text_to_japanese(t, r) == translate_to_japanese(t, r)

(***************************************************************************)
(* Entry points: the stages each runs, in order, and its except clauses    *)
(***************************************************************************)
process_url_to_markdown_translates_first == <<"fetch", "extract", "translate", "convert">>

\* WebToMarkdownTranslator.process_url_to_markdown
process_url_to_markdown == <<"fetch", "extract", "convert", "translate">>

translator_process_url_writes_first == <<"fetch", "extract", "convert", "write", "translate">>

\* WebToMarkdownTranslator.process_url (the CLI's URL mode)
translator_process_url == <<"fetch", "extract", "convert", "translate", "write">>

\* app.process_url
app_process_url == <<"construct", "fetch", "extract", "convert", "translate">>

\* app.process_text
app_process_text == <<"construct", "translate">>

\* mcp_server.convert_url_to_jp_markdown
convert_url_to_jp_markdown == <<"construct">> \o process_url_to_markdown

\* main.main
cli_main(mode) ==
    IF mode = "text" THEN <<"construct", "read", "translate", "write">>
    ELSE <<"construct">> \o translator_process_url

UrlEntries == {"lib_url", "app_url", "mcp_url", "cli_url", "ui_url"}

TextEntries == {"lib_text", "app_text", "cli_text", "ui_text"}

CliEntries == {"cli_url", "cli_text"}

UiEntries == {"ui_url", "ui_text"}

\* The stages of a call through entry point e; a direct user of the class
\* constructs the translator and calls one of its two methods.
Script(e) ==
    CASE e = "lib_url"  -> <<"construct">> \o process_url_to_markdown
      [] e = "lib_text" -> <<"construct", "translate">>
      [] e = "app_url"  -> app_process_url
      [] e = "app_text" -> app_process_text
      [] e = "ui_url"   -> app_process_url
      [] e = "ui_text"  -> app_process_text
      [] e = "mcp_url"  -> convert_url_to_jp_markdown
      [] e = "cli_url"  -> cli_main("url")
      [] e = "cli_text" -> cli_main("text")

\* The stage that follows stage st in the call, "idle" after the last one.
StageAfter(e, st) ==
    LET i == CHOOSE j \in 1..Len(Script(e)) : Script(e)[j] = st
    IN  IF i = Len(Script(e)) THEN "idle" ELSE Script(e)[i + 1]

\* app.process_url: except Exception as e: raise Exception(f"...: {str(e)}")
app_process_url_except(err) == Reraise("Exception", TagProcessing, err)

\* app.process_text: except Exception as e: raise Exception(f"...: {str(e)}")
app_process_text_except(err) == Reraise("Exception", TagProcessing, err)

\* convert_url_to_jp_markdown: the constructor call stands before the try.
mcp_except(st, err) ==
    IF st = "construct" THEN err ELSE Reraise("Exception", TagProcessing, err)

\* The exception that leaves entry point e when stage st raised err.
Propagate(e, st, err) ==
    CASE e \in {"app_url", "ui_url"}   -> app_process_url_except(err)
      [] e \in {"app_text", "ui_text"} -> app_process_text_except(err)
      [] e = "mcp_url"                 -> mcp_except(st, err)
      [] OTHER                         -> err

\* How a call through e ends: the library, app and tool functions return or
\* raise; the CLI process exits; the UI handler reports on the page.
EndKind(e, ok) ==
    CASE e \in CliEntries -> "exited"
      [] e \in UiEntries  -> IF ok THEN "shown" ELSE "reported"
      [] OTHER            -> IF ok THEN "returned" ELSE "raised"

NoResult == [status |-> "none", value |-> <<>>, err |-> <<>>]

(***************************************************************************)
(* State                                                                   *)
(***************************************************************************)
\* initialize_session_state
initialize_session_state ==
    [translated_content |-> <<>>, original_url |-> <<>>, original_text |-> <<>>,
     processing |-> FALSE, input_source |-> "url"]

Absent == <<"absent">>

\* Nothing is running and nothing has run.
Quiescent ==
    /\ entry = "none" /\ api_key = None /\ env_key = None /\ text = <<>>
    /\ client = None /\ markdown_content = <<>> /\ translated = <<>>
    /\ net = "pending" /\ svc = "pending" /\ fs = "pending"
    /\ calls = <<>>
    /\ result = NoResult
    /\ out_file = Absent
    /\ exit_code = None
    /\ session = initialize_session_state

Init ==
    /\ Quiescent
    /\ pc = "idle"
    /\ url = <<>> /\ html = <<>> /\ main_content = <<>>
    /\ filename = <<>>

Text1 == <<Line("# ", "Title"), Line("", "Hello")>>

Text2 == <<Line("- ", "Item")>>

Texts == {Text1, Text2}

\* A call through e starts: its arguments are bound and its locals are fresh.
Begin(e, k, env, u, t) ==
    /\ pc = "idle"
    /\ pc' = Head(Script(e))
    /\ entry' = e /\ api_key' = k /\ env_key' = env /\ url' = u /\ text' = t
    /\ client' = None /\ html' = <<>> /\ main_content' = <<>>
    /\ markdown_content' = <<>> /\ translated' = <<>>
    /\ net' = "pending" /\ svc' = "pending" /\ fs' = "pending"
    /\ calls' = <<>>
    /\ result' = NoResult
    /\ UNCHANGED <<out_file, filename>>

\* Stage st raised err: the call ends through the entry point's except clauses.
Abort(st, err) ==
    /\ pc' = "idle"
    /\ result' = [status |-> EndKind(entry, FALSE), value |-> <<>>,
                  err |-> Propagate(entry, st, err)]
    /\ exit_code' = IF entry \in CliEntries THEN 1 ELSE exit_code
    /\ session' = IF entry \in UiEntries THEN [session EXCEPT !.processing = FALSE]
                  ELSE session

\* The last stage of a library, app, tool or UI call produced v.
Return(v) ==
    /\ pc' = "idle"
    /\ result' = [status |-> EndKind(entry, TRUE), value |-> v, err |-> <<>>]
    /\ exit_code' = exit_code
    /\ session' = IF entry \in UiEntries
                  THEN [session EXCEPT !.translated_content = v, !.processing = FALSE]
                  ELSE session

\* Stage st succeeded and another stage follows.
Continue(st) ==
    /\ pc' = StageAfter(entry, st)
    /\ UNCHANGED <<result, exit_code, session>>

(***************************************************************************)
(* Callers                                                                 *)
(***************************************************************************)
KeyArgs == {None, "", KeyArg}

KeyEnvs == {None, "", KeyEnv}

\* translator = WebToMarkdownTranslator(k); translator.process_url_to_markdown(u)
CallProcessUrlToMarkdown ==
    \E k \in KeyArgs, env \in KeyEnvs, u \in Urls :
        Begin("lib_url", k, env, u, <<>>) /\ UNCHANGED <<exit_code, session>>

\* translator = WebToMarkdownTranslator(k); translator.translate_text_to_japanese(t)
CallTranslateText ==
    \E k \in KeyArgs, env \in KeyEnvs, t \in Texts :
        Begin("lib_text", k, env, <<>>, t) /\ UNCHANGED <<exit_code, session>>

\* app.process_url(u, k)
CallAppProcessUrl ==
    \E k \in KeyArgs, env \in KeyEnvs, u \in Urls :
        Begin("app_url", k, env, u, <<>>) /\ UNCHANGED <<exit_code, session>>

\* app.process_text(t, k)
CallAppProcessText ==
    \E k \in KeyArgs, env \in KeyEnvs, t \in Texts :
        Begin("app_text", k, env, <<>>, t) /\ UNCHANGED <<exit_code, session>>

\* The tool convert_url_to_jp_markdown(u): WebToMarkdownTranslator() takes no key.
CallMcpTool ==
    \E env \in KeyEnvs, u \in Urls :
        Begin("mcp_url", None, env, u, <<>>) /\ UNCHANGED <<exit_code, session>>

\* python main.py -i u -o out [--api-key k]
RunCliUrl ==
    \E k \in KeyArgs, env \in KeyEnvs, u \in Urls :
        Begin("cli_url", k, env, u, <<>>) /\ exit_code' = None /\ UNCHANGED session

\* python main.py --text -i file -o out [--api-key k]; t is what the file holds.
RunCliText ==
    \E k \in KeyArgs, env \in KeyEnvs, t \in Texts :
        Begin("cli_text", k, env, <<>>, t) /\ exit_code' = None /\ UNCHANGED session

\* The URL translate button: st.button(..., disabled=not url or processing).
ClickUrlTranslate ==
    \E w \in {"", KeyArg}, env \in KeyEnvs, u \in Urls :
        /\ pc = "idle"
        /\ ~session.processing
        /\ IF w = "" /\ env \in {None, ""}
           THEN /\ result' = [status |-> "reported", value |-> <<>>,
                              err |-> <<Layer("st.error", <<MsgSetKey>>)>>]
                /\ UNCHANGED <<pc, inputs, locals, world, calls, out_file, exit_code,
                               session, filename>>
           ELSE /\ Begin("ui_url", IF w = "" THEN None ELSE w, env, u, <<>>)
                /\ session' = [session EXCEPT !.processing = TRUE, !.original_url = u,
                                              !.input_source = "url"]
                /\ UNCHANGED exit_code

\* The text translate button: st.button(..., disabled=not text_input or processing).
ClickTextTranslate ==
    \E w \in {"", KeyArg}, env \in KeyEnvs, t \in Texts :
        /\ pc = "idle"
        /\ ~session.processing
        /\ IF w = "" /\ env \in {None, ""}
           THEN /\ result' = [status |-> "reported", value |-> <<>>,
                              err |-> <<Layer("st.error", <<MsgSetKey>>)>>]
                /\ UNCHANGED <<pc, inputs, locals, world, calls, out_file, exit_code,
                               session, filename>>
           ELSE /\ Begin("ui_text", IF w = "" THEN None ELSE w, env, <<>>, t)
                /\ session' = [session EXCEPT !.processing = TRUE, !.original_text = t,
                                              !.input_source = "text"]
                /\ UNCHANGED exit_code

(***************************************************************************)
(* Stages                                                                  *)
(***************************************************************************)
\* WebToMarkdownTranslator(api_key=...)
Construct ==
    /\ pc = "construct"
    /\ LET r == init(api_key, env_key)
       IN  IF r.ok THEN client' = r.value /\ Continue("construct")
           ELSE Abort("construct", r.err) /\ UNCHANGED client
    /\ UNCHANGED <<inputs, html, main_content, markdown_content, translated, world,
                   calls, out_file, filename>>

\* main: with open(args.input, "r", encoding="utf-8") as f: text_content = f.read()
ReadInput ==
    /\ pc = "read"
    /\ \E a \in {"ok", "missing"} :
        /\ fs' = a
        /\ IF a = "ok" THEN Continue("read")
           ELSE Abort("read", <<Layer("FileNotFoundError", <<"No such file">>)>>)
    /\ calls' = Append(calls, "read")
    /\ UNCHANGED <<inputs, locals, net, svc, out_file, filename>>

\* html_content = self.fetch_web_content(url)
Fetch ==
    /\ pc = "fetch"
    /\ \E a \in NetAnswers :
        /\ net' = a
        /\ LET r == fetch_web_content(url, a)
           IN  IF r.ok THEN html' = r.value /\ Continue("fetch")
               ELSE Abort("fetch", r.err) /\ UNCHANGED html
    /\ calls' = Append(calls, "fetch")
    /\ UNCHANGED <<inputs, client, main_content, markdown_content, translated, svc, fs,
                   out_file, filename>>

\* main_content = self.extract_main_content(html_content)
Extract ==
    /\ pc = "extract"
    /\ main_content' = extract_main_content(html)
    /\ calls' = Append(calls, "extract")
    /\ Continue("extract")
    /\ UNCHANGED <<inputs, client, html, markdown_content, translated, world, out_file,
                   filename>>

\* markdown_content = self.html_to_markdown(main_content)
Convert ==
    /\ pc = "convert"
    /\ markdown_content' = html_to_markdown(main_content)
    /\ calls' = Append(calls, "convert")
    /\ Continue("convert")
    /\ UNCHANGED <<inputs, client, html, main_content, translated, world, out_file,
                   filename>>

\* translated_content = self.translate_to_japanese(markdown_content), or
\* translator.translate_text_to_japanese(text) in a text call.
Translate ==
    /\ pc = "translate"
    /\ \E a \in SvcAnswers :
        /\ svc' = a
        /\ LET r == IF entry \in TextEntries THEN translate_text_to_japanese(text, a)
                    ELSE translate_to_japanese(markdown_content, a)
           IN  IF ~r.ok THEN Abort("translate", r.err) /\ UNCHANGED translated
               ELSE /\ translated' = r.value
                    /\ IF StageAfter(entry, "translate") = "idle" THEN Return(r.value)
                       ELSE Continue("translate")
    /\ calls' = Append(calls, "translate")
    /\ UNCHANGED <<inputs, client, html, main_content, markdown_content, net, fs,
                   out_file, filename>>

\* with open(output_path, "w", encoding="utf-8") as f: f.write(translated_content)
\* open() may fail before it touches the file; a write that fails leaves the
\* file open() truncated.
WriteOutput ==
    /\ pc = "write"
    /\ \E a \in {"ok", "open denied", "write failed"} :
        /\ fs' = a
        /\ CASE a = "ok" ->
                    /\ out_file' = translated
                    /\ IF StageAfter(entry, "write") = "idle"
                       THEN /\ pc' = "idle"
                            /\ exit_code' = 0
                            /\ result' = [status |-> "exited", value |-> translated,
                                          err |-> <<>>]
                            /\ UNCHANGED session
                       ELSE Continue("write")
             [] a = "open denied" ->
                    /\ UNCHANGED out_file
                    /\ Abort("write", <<Layer("PermissionError", <<"Permission denied">>)>>)
             [] a = "write failed" ->
                    /\ out_file' = <<>>
                    /\ Abort("write", <<Layer("OSError", <<"No space left on device">>)>>)
    /\ calls' = Append(calls, "write")
    /\ UNCHANGED <<inputs, locals, net, svc, filename>>

Next ==
    \/ CallProcessUrlToMarkdown
    \/ CallTranslateText
    \/ CallAppProcessUrl
    \/ CallAppProcessText
    \/ CallMcpTool
    \/ RunCliUrl
    \/ RunCliText
    \/ Construct
    \/ ReadInput
    \/ Fetch
    \/ Extract
    \/ Convert
    \/ Translate
    \/ WriteOutput

Spec == Init /\ [][Next]_vars

NextUI ==
    \/ ClickUrlTranslate
    \/ ClickTextTranslate
    \/ Construct
    \/ Fetch
    \/ Extract
    \/ Convert
    \/ Translate

SpecUI == Init /\ [][NextUI]_vars

(***************************************************************************)
(* Extraction applied to every bounded document                            *)
(***************************************************************************)
InitExtract ==
    /\ Quiescent
    /\ pc = "extract_main_content"
    /\ IsDoc(html)
    /\ main_content = <<>>
    /\ filename = <<>>
    /\ url = <<>>

CallExtract ==
    /\ pc = "extract_main_content"
    /\ main_content' = extract_main_content(html)
    /\ pc' = "returned"
    /\ UNCHANGED <<inputs, client, html, markdown_content, translated, world, calls,
                   ending, filename>>

NextExtract == CallExtract

SpecExtract == InitExtract /\ [][NextExtract]_vars

(***************************************************************************)
(* get_filename_from_url applied to every bounded URL                      *)
(***************************************************************************)
MaxPieces == 3

Https == <<"h", "t", "t", "p", "s", ":", "/", "/">>

\* The pieces URLs are put together from.
UrlPieces ==
    { Www, <<"a">>, <<"w">>, <<".">>, <<"/">>, <<"b", "-", "8">>, <<":", "8">>,
      <<"?", "a">>, <<"#", "b">>, <<"@">>, <<"_">> }

RECURSIVE Concat(_)
Concat(ps) == IF ps = <<>> THEN <<>> ELSE Head(ps) \o Concat(Tail(ps))

\* https://www.example.com/blog/post-1
Example1 ==
    Https \o Www \o <<"e", "x", "a", "m", "p", "l", "e", ".", "c", "o", "m", "/",
                      "b", "l", "o", "g", "/", "p", "o", "s", "t", "-", "1">>

\* https://example.com
Example2 == Https \o <<"e", "x", "a", "m", "p", "l", "e", ".", "c", "o", "m">>

\* u is one of the two example URLs, or at most MaxPieces pieces with or
\* without the scheme before them.
IsUrl(u) ==
    \/ u \in {Example1, Example2}
    \/ \E n \in 0..MaxPieces : \E ps \in [1..n -> UrlPieces] : \E pre \in {Https, <<>>} :
            u = pre \o Concat(ps)

InitFilename ==
    /\ Quiescent
    /\ pc = "get_filename_from_url"
    /\ IsUrl(url)
    /\ html = <<>> /\ main_content = <<>>
    /\ filename = <<>>

CallFilename ==
    /\ pc = "get_filename_from_url"
    /\ filename' = get_filename_from_url(url)
    /\ pc' = "returned"
    /\ UNCHANGED <<inputs, locals, world, calls, ending>>

NextFilename == CallFilename

SpecFilename == InitFilename /\ [][NextFilename]_vars

(***************************************************************************)
(* Properties of extraction, stated on the input document                  *)
(***************************************************************************)
Boilerplate == {"script", "style", "nav", "header", "footer", "aside"}

Ancestors(doc, i) == { j \in 1..(i - 1) : SubtreeEnd(doc, j) >= i }

\* Element i is a boilerplate element or sits inside one.
InBoilerplate(doc, i) ==
    \E j \in Ancestors(doc, i) \cup {i} : doc[j].name \in Boilerplate

RECURSIVE CleanRange(_, _, _)
\* The elements i..last that are not in boilerplate, in document order.
CleanRange(doc, i, last) ==
    IF i > last THEN <<>>
    ELSE (IF InBoilerplate(doc, i) THEN <<>> ELSE <<doc[i]>>) \o CleanRange(doc, i + 1, last)

Rebased(frag, d) == [k \in 1..Len(frag) |-> [frag[k] EXCEPT !.depth = @ - d]]

\* The subtree of element i without its boilerplate descendants.
CleanSubtree(doc, i) ==
    Rebased(<<doc[i]>> \o CleanRange(doc, i + 1, SubtreeEnd(doc, i)), doc[i].depth)

VerbatimSubtree(doc, i) == Rebased(SubSeq(doc, i, SubtreeEnd(doc, i)), doc[i].depth)

CleanDocument(doc) == CleanRange(doc, 1, Len(doc))

WithTag(doc, n) == { i \in 1..Len(doc) : doc[i].name = n }

KeptWithTag(doc, n) == { i \in WithTag(doc, n) : ~InBoilerplate(doc, i) }

Least(S) == CHOOSE i \in S : \A j \in S : i <= j

\* Element e is matched by one of the seven prioritized selectors.
Candidate(e) ==
    \/ e.name \in {"article", "main"}
    \/ e.role = "main"
    \/ e.cls \in {"content", "post-content", "entry-content", "article-content"}

\* C3 as stated: whenever the input holds an <article>, the result is the
\* (first) article's subtree verbatim, wherever it sits and whatever it holds.
C3_ArticleVerbatim ==
    (pc = "returned" /\ WithTag(html, "article") # {})
        => main_content = VerbatimSubtree(html, Least(WithTag(html, "article")))

\* C3 amended: whenever the input holds an <article> outside every boilerplate
\* element, the result is the first such article's subtree with its boilerplate
\* descendants removed, whichever other selectors match in the document.
C3_ArticleKept ==
    (pc = "returned" /\ KeptWithTag(html, "article") # {})
        => main_content = CleanSubtree(html, Least(KeptWithTag(html, "article")))

\* An article that follows a <main> element and holds a nav was extracted.
C3_Witness ==
    /\ pc = "returned"
    /\ KeptWithTag(html, "article") # {}
    /\ \E i \in KeptWithTag(html, "main") : i < Least(KeptWithTag(html, "article"))
    /\ Len(main_content) = 1
    /\ \E i \in WithTag(html, "nav") :
            Least(KeptWithTag(html, "article")) \in Ancestors(html, i)

\* C4: the extracted fragment holds no script, style, nav, header, footer or
\* aside element, whichever selector or fallback produced it.
C4_NoBoilerplate ==
    pc = "returned" => \A k \in 1..Len(main_content) : main_content[k].name \notin Boilerplate

\* The whole-document fallback returned a fragment from which an aside was removed.
C4_Witness ==
    /\ pc = "returned"
    /\ WithTag(html, "aside") # {}
    /\ WithTag(html, "body") = {}
    /\ \A i \in 1..Len(html) : ~Candidate(html[i])
    /\ main_content # <<>>

\* C5 as stated: when no element of the input matches a selector, the result
\* is the subtree of a <body> of the input if it has one, else the whole document.
C5_BodyOfInput ==
    (pc = "returned" /\ \A i \in 1..Len(html) : ~Candidate(html[i]))
        => IF WithTag(html, "body") # {}
           THEN \E i \in WithTag(html, "body") : main_content = CleanSubtree(html, i)
           ELSE main_content = CleanDocument(html)

\* C5 amended: when no element outside boilerplate matches a selector, the
\* result is the subtree of the first <body> outside boilerplate, else (no such
\* body) the whole document without its boilerplate; a fragment is always returned.
C5_BodyFallback ==
    /\ pc = "returned" => main_content \in Seq([name : STRING, role : STRING, cls : STRING,
                                                 text : STRING, depth : Nat])
    /\ (pc = "returned" /\ \A i \in 1..Len(html) : InBoilerplate(html, i) \/ ~Candidate(html[i]))
         => IF KeptWithTag(html, "body") # {}
            THEN main_content = CleanSubtree(html, Least(KeptWithTag(html, "body")))
            ELSE main_content = CleanDocument(html)

\* The body fallback returned a <body> that is not the root of the document.
C5_Witness ==
    /\ pc = "returned"
    /\ \A i \in 1..Len(html) : InBoilerplate(html, i) \/ ~Candidate(html[i])
    /\ KeptWithTag(html, "body") # {}
    /\ Least(KeptWithTag(html, "body")) > 1
    /\ main_content # <<>> /\ main_content[1].name = "body"
    /\ Len(main_content) < Len(html)

(***************************************************************************)
(* Properties of the pipeline and its callers                              *)
(***************************************************************************)
Range(s) == { s[i] : i \in 1..Len(s) }

Count(s, x) == Cardinality({ i \in 1..Len(s) : s[i] = x })

IsPrefix(s, t) == Len(s) <= Len(t) /\ SubSeq(t, 1, Len(s)) = s

IsSuffix(s, t) == Len(s) <= Len(t) /\ SubSeq(t, Len(t) - Len(s) + 1, Len(t)) = s

NetFailed == net \in {"404", "refused"}

SvcFailed == svc \in {"quota", "unavailable"}

\* FetchError: the requests.RequestException fetch_web_content raises.
IsFetchError(e) ==
    /\ e # <<>>
    /\ IsA(Head(e).type, "RequestException")
    /\ TagFetch \in Range(Head(e).msg)

\* TranslationError: the Exception with the translation prefix that
\* translate_to_japanese raises.
IsTranslationError(e) ==
    /\ e # <<>>
    /\ Head(e).type = "Exception"
    /\ TagTranslate \in Range(Head(e).msg)

PipelineStages == {"fetch", "extract", "convert", "translate"}

\* C1 as stated: a failed fetch makes process_url_to_markdown and app.process_url
\* raise FetchError, with extraction, conversion and translation never invoked.
C1_FetchFailureRaisesFetchError ==
    (pc = "idle" /\ entry \in {"lib_url", "app_url"} /\ NetFailed)
        => /\ result.status = "raised"
           /\ IsFetchError(result.err)
           /\ Range(calls) \cap {"extract", "convert", "translate"} = {}

\* C1 amended: a failed fetch ends the call with extraction, conversion and
\* translation never invoked and nothing returned; process_url_to_markdown raises
\* FetchError carrying the cause, while app.process_url and the tool raise a plain
\* Exception whose message is the processing prefix followed by the FetchError's
\* message, the FetchError being its context.
C1_FetchFailureAborts ==
    (pc = "idle" /\ entry \in {"lib_url", "app_url", "mcp_url"} /\ NetFailed)
        => /\ result.status = "raised"
           /\ result.value = <<>>
           /\ calls = <<"fetch">>
           /\ svc = "pending"
           /\ IF entry = "lib_url"
              THEN /\ IsFetchError(result.err)
                   /\ Head(result.err).msg = <<TagFetch>> \o Head(NetError(net)).msg
              ELSE /\ Head(result.err).type = "Exception"
                   /\ Head(result.err).msg
                        = <<TagProcessing, TagFetch>> \o Head(NetError(net)).msg
                   /\ IsFetchError(Tail(result.err))

\* app.process_url ended on an HTTP 404.
C1_Witness ==
    /\ pc = "idle" /\ entry = "app_url" /\ net = "404"
    /\ result.status = "raised"
    /\ calls = <<"fetch">>

\* C2: a failure of the translation service makes the URL call and the text call
\* raise TranslationError whose message carries the cause's message, and no
\* translated text is returned.
C2_TranslationFailureRaises ==
    (pc = "idle" /\ entry \in {"lib_url", "lib_text", "app_url", "app_text", "mcp_url"}
        /\ SvcFailed)
        => /\ result.status = "raised"
           /\ result.value = <<>>
           /\ translated = <<>>
           /\ IsTranslationError(result.err)
           /\ IsSuffix(<<TagTranslate>> \o Head(SvcError(svc)).msg, Head(result.err).msg)

\* app.process_text ended on a quota error of the service.
C2_Witness ==
    /\ pc = "idle" /\ entry = "app_text" /\ svc = "quota"
    /\ result.status = "raised"
    /\ calls = <<"translate">>

\* The key the claim says the pipeline uses.
ClaimedKey == IF api_key # None THEN api_key ELSE env_key

Failed == result.status \in {"raised", "exited", "reported"} /\ result.err # <<>>

\* C7: the translator holds the explicit parameter if one was given, else the
\* environment value; when that yields no key the call fails in the constructor
\* with the configuration error, before any fetch or translation call.
C7_KeyAtConstruction ==
    /\ pc = "construct" => calls = <<>> /\ net = "pending" /\ svc = "pending"
    /\ (entry # "none" /\ pc \notin {"idle", "construct"})
         => client = ClaimedKey /\ client \notin {None, ""}
    /\ (entry # "none" /\ pc = "idle" /\ ClaimedKey \in {None, ""})
         => /\ Failed
            /\ result.err[Len(result.err)] = Layer("ValueError", <<MsgNoKey>>)
            /\ client = None
            /\ calls = <<>> /\ net = "pending" /\ svc = "pending"
    /\ (entry # "none" /\ pc = "idle" /\ ClaimedKey \notin {None, ""})
         => client = ClaimedKey

\* The tool was called with GEMINI_API_KEY set to the empty string.
C7_Witness ==
    /\ pc = "idle" /\ entry = "mcp_url" /\ env_key = ""
    /\ result.status = "raised"
    /\ Head(result.err).type = "ValueError"
    /\ calls = <<>>

RECURSIVE Only(_, _)
Only(s, S) ==
    IF s = <<>> THEN <<>>
    ELSE (IF Head(s) \in S THEN <<Head(s)>> ELSE <<>>) \o Only(Tail(s), S)

\* C8: a call fetches at most once and calls the translation service at most
\* once, never again after a failure; a URL call runs fetch, extract, convert,
\* translate in that order, and a text call never fetches.
C8_OneFetchOneTranslation ==
    /\ Count(calls, "fetch") <= 1
    /\ Count(calls, "translate") <= 1
    /\ entry \in UrlEntries
         => IsPrefix(Only(calls, PipelineStages), <<"fetch", "extract", "convert", "translate">>)
    /\ entry \in TextEntries => "fetch" \notin Range(calls) /\ net = "pending"
    /\ NetFailed => pc = "idle" /\ Only(calls, PipelineStages) = <<"fetch">>
    /\ SvcFailed => pc = "idle" /\ calls[Len(calls)] = "translate"
    /\ net # "pending" => "fetch" \in Range(calls)
    /\ svc # "pending" => "translate" \in Range(calls)

\* process_url_to_markdown returned after its four stages.
C8_Witness ==
    /\ pc = "idle" /\ entry = "lib_url"
    /\ result.status = "returned"
    /\ calls = <<"fetch", "extract", "convert", "translate">>

\* The CLI call ended on a configuration, input, fetch or translation error.
CliPipelineError ==
    /\ pc = "idle" /\ entry \in CliEntries
    /\ result.err # <<>>
    /\ fs \notin {"open denied", "write failed"}

C9_ExitStatus ==
    /\ CliPipelineError => exit_code = 1 /\ "write" \notin Range(calls)
    /\ (pc = "idle" /\ entry \in CliEntries /\ exit_code = 0)
         => /\ result.err = <<>>
            /\ svc \in {"text", "no text"}
            /\ out_file = translated
            /\ translated = (IF svc = "no text" THEN <<>>
                             ELSE Ja(IF entry = "cli_text" THEN text ELSE markdown_content))

C9_WriteStep ==
    out_file' # out_file
        => /\ pc = "write"
           /\ svc \in {"text", "no text"}
           /\ calls[Len(calls)] = "translate"
           /\ out_file' \in {translated, <<>>}

\* C9: the CLI writes the output path only in its last step, after translation
\* has succeeded, and what it writes is the translated Markdown; a call that ends
\* on a configuration, input, fetch or translation error exits with status 1 and
\* has not touched the output path.
C9_WriteOnlyOnSuccess == []C9_ExitStatus /\ [][C9_WriteStep]_vars

\* A CLI text call failed in translation and left an earlier output in place.
C9_Witness ==
    /\ pc = "idle" /\ entry = "cli_text" /\ svc = "quota"
    /\ exit_code = 1
    /\ out_file \notin {Absent, <<>>}

(***************************************************************************)
(* Properties of the file name and of the session                          *)
(***************************************************************************)
\* The host with a leading "www." dropped.
HostWithoutLeadingWww(u) ==
    LET host == urlparse(u).netloc
    IN  IF Len(host) >= 4 /\ SubSeq(host, 1, 4) = <<"w", "w", "w", ".">>
        THEN SubSeq(host, 5, Len(host)) ELSE host

\* The path between its outer slashes, with "/" turned into "_".
PathUnderscored(u) ==
    LET path == strip(urlparse(u).path, "/")
    IN  [k \in 1..Len(path) |-> IF path[k] = "/" THEN "_" ELSE path[k]]

SafeChar(c) == c \in Letters \cup Digits \cup {"-", "_", "."}

Sanitized(s) == [k \in 1..Len(s) |-> IF SafeChar(s[k]) THEN s[k] ELSE "_"]

\* C6 as stated: for every URL the name is the host without a leading "www.",
\* then "_" and the path with "/" as "_" when the path is not empty, every
\* character other than alphanumerics and "-_." replaced by "_", then ".md".
C6_FilenameAsStated ==
    pc = "returned"
        => filename =
             Sanitized(HostWithoutLeadingWww(url)
                       \o (IF PathUnderscored(url) # <<>>
                           THEN <<"_">> \o PathUnderscored(url) ELSE <<>>))
             \o <<".", "m", "d">>

\* The two examples of the specification.
FilenameExamples ==
    pc = "returned"
        => /\ url = Example1
                => filename = <<"e", "x", "a", "m", "p", "l", "e", ".", "c", "o", "m", "_",
                                "b", "l", "o", "g", "_", "p", "o", "s", "t", "-", "1",
                                ".", "m", "d">>
           /\ url = Example2
                => filename = <<"e", "x", "a", "m", "p", "l", "e", ".", "c", "o", "m",
                                ".", "m", "d">>

\* The Markdown whose translation the session's record of the input stands for.
RecordedInput ==
    IF session.input_source = "url"
    THEN html_to_markdown(extract_main_content(Page(session.original_url)))
    ELSE session.original_text

\* C10: between handlers the processing flag is off, and stored content that is
\* not empty is the translation of the input the session records, so that the
\* download name comes from the URL whose page is displayed.
C10_ContentMatchesRecordedInput ==
    pc = "idle"
        => /\ ~session.processing
           /\ session.translated_content # <<>>
                => session.translated_content = Ja(RecordedInput)

====
